---- MODULE Spec2Model ----
(***************************************************************************)
(* A model of the jira-release-action: the orchestrator run() of           *)
(* src/main.ts, the input schema of src/schema.ts and the version          *)
(* reconciler / deleter of src/jira.ts, run against a tracker that holds   *)
(* the versions of one project.  Text is modelled as sequences of          *)
(* one-character strings so that trimming, splitting, date parsing and     *)
(* date formatting are computed rather than assumed.                       *)
(***************************************************************************)
EXTENDS Integers, Sequences, FiniteSets, TLC

(***************************************************************************)
(* Bounds of the model.                                                    *)
(***************************************************************************)
\* how many minutes the clock may advance during one run
MaxTicks == 2
\* how many versions the project holds before the run
MaxVersions == 3
\* how many versions the tracker returns on the first page of a listing
PageSize == 1

(***************************************************************************)
(* Text.                                                                   *)
(***************************************************************************)
DigitChars == <<"0", "1", "2", "3", "4", "5", "6", "7", "8", "9">>

IsDigit(c) == \E i \in 1..Len(DigitChars) : DigitChars[i] = c

DigitVal(c) == (CHOOSE i \in 1..Len(DigitChars) : DigitChars[i] = c) - 1

IsSpace(c) == c \in {" ", "\t"}

RECURSIVE TrimStart(_)
TrimStart(s) ==
    IF s # <<>> /\ IsSpace(Head(s)) THEN TrimStart(Tail(s)) ELSE s

RECURSIVE TrimEnd(_)
TrimEnd(s) ==
    IF s # <<>> /\ IsSpace(s[Len(s)])
    THEN TrimEnd(SubSeq(s, 1, Len(s) - 1))
    ELSE s

\* String.prototype.trim
Trim(s) == TrimEnd(TrimStart(s))

\* String.prototype.split(","): the pieces between the commas, empty ones kept
RECURSIVE SplitFrom(_, _)
SplitFrom(s, cur) ==
    IF s = <<>> THEN <<cur>>
    ELSE IF Head(s) = "," THEN <<cur>> \o SplitFrom(Tail(s), <<>>)
    ELSE SplitFrom(Tail(s), Append(cur, Head(s)))

SplitComma(s) == SplitFrom(s, <<>>)

\* whether needle occurs in hay (the tracker's server-side name filter)
Contains(hay, needle) ==
    \E i \in 0..(Len(hay) - Len(needle)) :
        SubSeq(hay, i + 1, i + Len(needle)) = needle

(***************************************************************************)
(* Optional values: <<>> is undefined, <<v>> is the value v.               *)
(***************************************************************************)
Undefined == <<>>

Some(v) == <<v>>

\* JavaScript truthiness of an optional string
Truthy(o) == o # Undefined /\ o[1] # <<>>

(***************************************************************************)
(* Dates.  A time value is a number of minutes since 1970-01-01T00:00Z, or *)
(* NaN.                                                                    *)
(***************************************************************************)
NaN == [valid |-> FALSE, t |-> 0]

TimeValue(t) == [valid |-> TRUE, t |-> t]

MinutesPerDay == 24 * 60

\* days since 1970-01-01 of the civil date y-m-d (proleptic Gregorian);
\* a day beyond the month's end runs over into the next month
DaysFromCivil(y, m, d) ==
    LET yy  == IF m <= 2 THEN y - 1 ELSE y
        era == yy \div 400
        yoe == yy - era * 400
        mp  == IF m > 2 THEN m - 3 ELSE m + 9
        doy == (153 * mp + 2) \div 5 + d - 1
        doe == yoe * 365 + yoe \div 4 - yoe \div 100 + doy
    IN  era * 146097 + doe - 719468

\* the civil date of a number of days since 1970-01-01
CivilFromDays(z) ==
    LET zz  == z + 719468
        era == zz \div 146097
        doe == zz - era * 146097
        yoe == (doe - doe \div 1460 + doe \div 36524 - doe \div 146096) \div 365
        doy == doe - (365 * yoe + yoe \div 4 - yoe \div 100)
        mp  == (5 * doy + 2) \div 153
        d   == doy - (153 * mp + 2) \div 5 + 1
        m   == IF mp < 10 THEN mp + 3 ELSE mp - 9
        y   == yoe + era * 400 + (IF m <= 2 THEN 1 ELSE 0)
    IN  [y |-> y, m |-> m, d |-> d]

\* the decimal digits of n, padded with zeros to width w
RECURSIVE Pad(_, _)
Pad(n, w) ==
    IF w = 0 THEN <<>>
    ELSE Append(Pad(n \div 10, w - 1), DigitChars[(n % 10) + 1])

\* the number a run of digits denotes
RECURSIVE Num(_)
Num(s) ==
    IF s = <<>> THEN 0 ELSE Num(SubSeq(s, 1, Len(s) - 1)) * 10 + DigitVal(s[Len(s)])

AllDigits(s) == \A i \in 1..Len(s) : IsDigit(s[i])

\* YYYY-MM-DD with a month 1..12 and a day 1..31
IsDateShape(s) ==
    /\ Len(s) = 10
    /\ AllDigits(SubSeq(s, 1, 4)) /\ s[5] = "-"
    /\ AllDigits(SubSeq(s, 6, 7)) /\ s[8] = "-"
    /\ AllDigits(SubSeq(s, 9, 10))
    /\ Num(SubSeq(s, 6, 7)) \in 1..12
    /\ Num(SubSeq(s, 9, 10)) \in 1..31

\* HH:MM with an hour 0..23 and a minute 0..59
IsTimeShape(s) ==
    /\ Len(s) = 5
    /\ AllDigits(SubSeq(s, 1, 2)) /\ s[3] = ":"
    /\ AllDigits(SubSeq(s, 4, 5))
    /\ Num(SubSeq(s, 1, 2)) \in 0..23
    /\ Num(SubSeq(s, 4, 5)) \in 0..59

DateDays(s) ==
    DaysFromCivil(Num(SubSeq(s, 1, 4)), Num(SubSeq(s, 6, 7)), Num(SubSeq(s, 9, 10)))

TimeMinutes(s) == Num(SubSeq(s, 1, 2)) * 60 + Num(SubSeq(s, 4, 5))

\* new Date(s).getTime() for the ISO forms YYYY-MM-DD, YYYY-MM-DDTHH:MMZ and
\* YYYY-MM-DDTHH:MM(+|-)HH:MM; every other text read here is not a date
ParseDate(s) ==
    IF IsDateShape(s)
    THEN TimeValue(DateDays(s) * MinutesPerDay)
    ELSE IF /\ Len(s) = 17
            /\ IsDateShape(SubSeq(s, 1, 10)) /\ s[11] = "T"
            /\ IsTimeShape(SubSeq(s, 12, 16)) /\ s[17] = "Z"
    THEN TimeValue(DateDays(SubSeq(s, 1, 10)) * MinutesPerDay
                   + TimeMinutes(SubSeq(s, 12, 16)))
    ELSE IF /\ Len(s) = 22
            /\ IsDateShape(SubSeq(s, 1, 10)) /\ s[11] = "T"
            /\ IsTimeShape(SubSeq(s, 12, 16)) /\ s[17] \in {"+", "-"}
            /\ IsTimeShape(SubSeq(s, 18, 22))
    THEN TimeValue(DateDays(SubSeq(s, 1, 10)) * MinutesPerDay
                   + TimeMinutes(SubSeq(s, 12, 16))
                   + (IF s[17] = "+" THEN -1 ELSE 1) * TimeMinutes(SubSeq(s, 18, 22)))
    ELSE NaN

\* toISOString().split("T")[0] of a valid time value: its UTC calendar day
ISODay(t) ==
    LET c == CivilFromDays(t \div MinutesPerDay)
    IN  Pad(c.y, 4) \o <<"-">> \o Pad(c.m, 2) \o <<"-">> \o Pad(c.d, 2)

(***************************************************************************)
(* The inputs of a run and the project's versions before it.               *)
(***************************************************************************)
NameV1 == <<"v", "1">>

NameV10 == <<"v", "1", ".", "0">>

NameV11 == <<"v", "1", ".", "1">>

\* three names, each of which the name filter "v1" lets through
Names == {NameV1, NameV10, NameV11}

DateLeapDay == <<"2", "0", "2", "4", "-", "0", "2", "-", "2", "9">>

\* 23:30 at UTC-02:00 is 01:30 of the next day in UTC
DateLateWest == DateLeapDay \o <<"T", "2", "3", ":", "3", "0", "-", "0", "2", ":", "0", "0">>

DateBadMonth == <<"2", "0", "2", "4", "-", "1", "3", "-", "0", "1">>

DateWords == <<"n", "o", "t", "-", "a", "-", "d", "a", "t", "e">>

DateBlank == <<" ">>

DateInputs == {<<>>, DateBlank, DateWords, DateBadMonth, DateLeapDay, DateLateWest}

TicketsOne == <<"A", "-", "1">>

TicketsTwo == <<"A", "-", "1", ",", " ", "A", "-", "2">>

TicketInputs == {<<>>, TicketsOne, TicketsTwo}

Operations == {"create_or_update", "delete", "archive"}

Inputs ==
    [ jira_project         : {"PRJ"},
      release_name         : Names,
      operation            : Operations,
      tickets              : TicketInputs,
      dry_run              : BOOLEAN,
      release_description  : {"notes"},
      release_released     : BOOLEAN,
      release_release_date : DateInputs,
      release_archived     : {FALSE} ]

\* the tracker's identifier of the project with key PRJ
ProjectId == "10000"

\* a version as the tracker holds it
RemoteVersion(id, p) ==
    [ id |-> id, name |-> p.name, description |-> p.description,
      released |-> p.released, releaseDate |-> p.releaseDate,
      archived |-> p.archived ]

Unreleased(name) ==
    [ name |-> name, description |-> "", released |-> FALSE,
      releaseDate |-> Undefined, archived |-> FALSE ]

\* the project's versions before the run: distinct names, identifiers 1, 2, ...
Trackers ==
    UNION { { [i \in 1..n |-> RemoteVersion(i, Unreleased(f[i]))] :
                f \in { g \in [1..n -> Names] :
                          \A i, j \in 1..n : i # j => g[i] # g[j] } } :
            n \in 0..MaxVersions }

\* the clock when the run starts: one minute before the UTC day changes
ClockStart == ParseDate(DateLeapDay \o <<"T", "2", "3", ":", "5", "9", "Z">>).t

(***************************************************************************)
(* Errors.  A thrown value is an Error with a message, or some other value *)
(* (a rejected request's plain response object).                           *)
(***************************************************************************)
Error(msg) == [isError |-> TRUE, message |-> msg]

PlainObject == [isError |-> FALSE, message |-> <<"Request failed with status code 500">>]

\* what an awaited tracker request may reject with
Rejections == {Error(<<"Network Error">>), PlainObject}

RangeError == Error(<<"Invalid time value">>)

(***************************************************************************)
(* src/schema.ts: the input schema.                                        *)
(***************************************************************************)
\* operation: v.picklist(["create_or_update", "delete"])
OperationCheck(inp) == inp.operation \in {"create_or_update", "delete"}

\* a check that lets every release date through
ReleaseDateUnchecked(inp) == TRUE

\* the v.check of the pipe: a release date that is not blank must be a date
ReleaseDateCheck(inp) ==
    IF Trim(inp.release_release_date) # <<>>
    THEN ParseDate(inp.release_release_date).valid
    ELSE TRUE

\* v.parse(InputSchema, inputs): the message of the first issue, if any; the
\* pipe's check runs once the object itself is valid
ValidationIssue(inp) ==
    IF ~OperationCheck(inp) THEN Some(<<"Invalid type: Expected (\"create_or_update\" | \"delete\") but received ", inp.operation>>)
    ELSE IF ~ReleaseDateCheck(inp) THEN Some(<<"Release date must be a valid date.">>)
    ELSE Undefined

(***************************************************************************)
(* src/main.ts: the pieces of run().                                       *)
(***************************************************************************)
\* a run that never looks at the flag
DryRunIgnored(inp) == FALSE

\* if (input.dry_run)
DryRun(inp) == inp.dry_run

\* the params object handed to upsertProjectVersion
UpsertParams(inp) ==
    [ name        |-> inp.release_name,
      description |-> inp.release_description,
      released    |-> inp.release_released,
      releaseDate |-> IF inp.release_release_date # <<>>
                      THEN Some(inp.release_release_date)
                      ELSE Undefined,
      archived    |-> inp.release_archived ]

\* if (input.tickets)
HasTickets(inp) == inp.tickets # <<>>

\* a split that does not trim its pieces
SplitTicketsUntrimmed(tickets) == SplitComma(tickets)

\* input.tickets.split(",").map((ticket) => ticket.trim())
SplitTickets(tickets) ==
    LET parts == SplitComma(tickets)
    IN  [i \in 1..Len(parts) |-> Trim(parts[i])]

\* the catch of run(): setFailed for an Error, nothing for any other value
Signal(signals, err) ==
    IF err.isError THEN Append(signals, err.message) ELSE signals

(***************************************************************************)
(* src/jira.ts: lookup, upsert, delete.                                    *)
(***************************************************************************)
\* the tracker's answer to getProjectVersionsPaginated: the first page of the
\* versions whose name contains the query, in the tracker's order
FirstPage(versions, query) ==
    LET match == SelectSeq(versions, LAMBDA v : Contains(v.name, query))
    IN  SubSeq(match, 1, IF Len(match) < PageSize THEN Len(match) ELSE PageSize)

\* a find that trusts the server's filter and takes the first version listed
FindFirstListed(values, name) ==
    IF values # <<>> THEN Some(values[1]) ELSE Undefined

\* versions.values?.find((v) => v.name === name) || null
FindByName(values, name) ==
    IF \E i \in 1..Len(values) : values[i].name = name
    THEN Some(values[CHOOSE i \in 1..Len(values) :
                  /\ values[i].name = name
                  /\ \A j \in 1..(i - 1) : values[j].name # name])
    ELSE Undefined

\* getProjectVersionByName awaited on tracker state t
Lookup(t, name) == FindByName(FirstPage(t, name), name)

\* `Version ${name} not found`
NotFoundMessage(name) == <<"Version ">> \o name \o <<" not found">>

\* whether new Date(text).toISOString() throws
FormatThrows(o) == Truthy(o) /\ ~ParseDate(o[1]).valid

\* o ? new Date(o).toISOString().split("T")[0] : undefined, where it returns
Format(o) == IF Truthy(o) THEN Some(ISODay(ParseDate(o[1]).t)) ELSE Undefined

\* a derivation that keeps the supplied date of an unreleased version
DeriveWithoutClearing(p, clock) ==
    IF p.released /\ ~Truthy(p.releaseDate) THEN Some(ISODay(clock))
    ELSE p.releaseDate

\* a derivation that stamps the calendar day of a clock two hours behind UTC
DeriveLocalDay(p, clock) ==
    IF p.released /\ ~Truthy(p.releaseDate) THEN Some(ISODay(clock - 2 * 60))
    ELSE IF ~p.released THEN Undefined
    ELSE p.releaseDate

\* prepareUpsertParams: the release date after its first if / else if, with
\* the clock reading `clock`
DeriveReleaseDate(p, clock) ==
    IF p.released /\ ~Truthy(p.releaseDate) THEN Some(ISODay(clock))
    ELSE IF ~p.released THEN Undefined
    ELSE p.releaseDate

\* prepareUpsertParams: whether it throws, and what it returns
PrepareThrows(p, clock) == FormatThrows(DeriveReleaseDate(p, clock))

PrepareUpsertParams(p, clock) ==
    [p EXCEPT !.releaseDate = Format(Format(DeriveReleaseDate(p, clock)))]

\* an upsert that never takes the update branch
HasIdNever(found) == FALSE

\* if (version?.id)
HasId(found) == found # Undefined

\* the request updateVersion({...preparedParams, id: versionId})
UpdateRequest(prepared, versionId) ==
    [kind |-> "updateVersion", payload |-> prepared, id |-> versionId]

\* the request createVersion({...preparedParams, projectId})
CreateRequest(prepared, projectId) ==
    [kind |-> "createVersion", payload |-> prepared, projectId |-> projectId]

\* the request getProjectVersionsPaginated({projectIdOrKey, query: name})
ListRequest(projectKey, name) ==
    [kind |-> "listVersions", project |-> projectKey, query |-> name]

\* the request getProject({projectIdOrKey})
ProjectRequest(projectKey) == [kind |-> "getProject", project |-> projectKey]

\* the request deleteAndReplaceVersion({id})
DeleteRequest(versionId) == [kind |-> "deleteVersion", id |-> versionId]

\* the issue tagger's request for one issue: set its fix version
TagRequest(versionId, key) ==
    [kind |-> "editIssue", issue |-> key, versionId |-> versionId]

(***************************************************************************)
(* The state of one run.                                                   *)
(***************************************************************************)
VARIABLES
    input,      \* the configuration the run reads
    before,     \* the project's versions when the run starts
    tracker,    \* the project's versions
    nextId,     \* the identifier the tracker gives the next version
    pc,         \* where run() is: start, the request it awaits, or done
    params,     \* upsertProjectVersion's params object
    found,      \* the version the lookup found
    returned,   \* the version upsertProjectVersion returned
    keys,       \* the issue keys to tag
    tagged,     \* how many tagging requests have been issued
    requests,   \* every request sent to the tracker, in order
    dumped,     \* whether the dry run reported the configuration
    thrown,     \* the value run() caught
    failures,   \* the messages given to setFailed, in order
    now,        \* the clock, in minutes
    ticks       \* how far the clock has advanced

vars ==
    << input, before, tracker, nextId, pc, params, found, returned, keys,
       tagged, requests, dumped, thrown, failures, now, ticks >>

Init ==
    /\ input \in Inputs
    /\ before \in Trackers
    /\ tracker = before
    /\ nextId = Len(before) + 1
    /\ pc = "start"
    /\ params = Undefined
    /\ found = Undefined
    /\ returned = Undefined
    /\ keys = <<>>
    /\ tagged = 0
    /\ requests = <<>>
    /\ dumped = FALSE
    /\ thrown = Undefined
    /\ failures = <<>>
    /\ now = ClockStart
    /\ ticks = 0

\* a request leaves for the tracker; the log keeps the clock's reading
Send(req) == requests' = Append(requests, [at |-> now] @@ req)

\* a throw inside run()'s try block reaches its catch
Catch(err) ==
    /\ thrown' = Some(err)
    /\ failures' = Signal(failures, err)
    /\ pc' = "done"

Awaiting == {"lookup", "project", "create", "update", "delete", "tag"}

(***************************************************************************)
(* run(), from its start to its first await.                               *)
(***************************************************************************)
\* v.parse throws
RunInvalid ==
    /\ pc = "start"
    /\ ValidationIssue(input) # Undefined
    /\ Catch(Error(ValidationIssue(input)[1]))
    /\ UNCHANGED << input, before, tracker, nextId, params, found, returned,
                    keys, tagged, requests, dumped, now, ticks >>

\* the dry run dumps the configuration and returns
RunDry ==
    /\ pc = "start"
    /\ ValidationIssue(input) = Undefined
    /\ DryRun(input)
    /\ dumped' = TRUE
    /\ pc' = "done"
    /\ UNCHANGED << input, before, tracker, nextId, params, found, returned,
                    keys, tagged, requests, thrown, failures, now, ticks >>

\* create_or_update: upsertProjectVersion normalizes the date and looks the
\* version up; the date's toISOString may throw
RunUpsert ==
    /\ pc = "start"
    /\ ValidationIssue(input) = Undefined
    /\ ~DryRun(input)
    /\ input.operation = "create_or_update"
    /\ LET p == UpsertParams(input)
       IN  IF FormatThrows(p.releaseDate)
           THEN /\ Catch(RangeError)
                /\ UNCHANGED << params, requests >>
           ELSE /\ params' = Some([p EXCEPT !.releaseDate = Format(p.releaseDate)])
                /\ Send(ListRequest(input.jira_project, p.name))
                /\ pc' = "lookup"
                /\ UNCHANGED << thrown, failures >>
    /\ UNCHANGED << input, before, tracker, nextId, found, returned, keys,
                    tagged, dumped, now, ticks >>

\* delete: deleteProjectVersionByName looks the version up
RunDelete ==
    /\ pc = "start"
    /\ ValidationIssue(input) = Undefined
    /\ ~DryRun(input)
    /\ input.operation = "delete"
    /\ Send(ListRequest(input.jira_project, input.release_name))
    /\ pc' = "lookup"
    /\ UNCHANGED << input, before, tracker, nextId, params, found, returned,
                    keys, tagged, dumped, thrown, failures, now, ticks >>

(***************************************************************************)
(* The lookup returns.                                                     *)
(***************************************************************************)
\* upsert, version found: prepare the payload and update
UpsertFound ==
    /\ pc = "lookup"
    /\ input.operation = "create_or_update"
    /\ HasId(Lookup(tracker, params[1].name))
    /\ found' = Lookup(tracker, params[1].name)
    /\ IF PrepareThrows(params[1], now)
       THEN /\ Catch(RangeError)
            /\ UNCHANGED << params, requests >>
       ELSE /\ params' = Some(PrepareUpsertParams(params[1], now))
            /\ Send(UpdateRequest(PrepareUpsertParams(params[1], now), found'[1].id))
            /\ pc' = "update"
            /\ UNCHANGED << thrown, failures >>
    /\ UNCHANGED << input, before, tracker, nextId, returned, keys, tagged,
                    dumped, now, ticks >>

\* upsert, version not found: createProjectVersion asks for the project
UpsertNotFound ==
    /\ pc = "lookup"
    /\ input.operation = "create_or_update"
    /\ ~HasId(Lookup(tracker, params[1].name))
    /\ Send(ProjectRequest(input.jira_project))
    /\ pc' = "project"
    /\ UNCHANGED << input, before, tracker, nextId, params, found, returned,
                    keys, tagged, dumped, thrown, failures, now, ticks >>

\* delete, version not found: throw
DeleteNotFound ==
    /\ pc = "lookup"
    /\ input.operation = "delete"
    /\ ~HasId(Lookup(tracker, input.release_name))
    /\ Catch(Error(NotFoundMessage(input.release_name)))
    /\ UNCHANGED << input, before, tracker, nextId, params, found, returned,
                    keys, tagged, requests, dumped, now, ticks >>

\* delete, version found: delete it
DeleteFound ==
    /\ pc = "lookup"
    /\ input.operation = "delete"
    /\ HasId(Lookup(tracker, input.release_name))
    /\ found' = Lookup(tracker, input.release_name)
    /\ Send(DeleteRequest(found'[1].id))
    /\ pc' = "delete"
    /\ UNCHANGED << input, before, tracker, nextId, params, returned, keys,
                    tagged, dumped, thrown, failures, now, ticks >>

(***************************************************************************)
(* The issue tagger.                                                       *)
(***************************************************************************)
\* setVersionOnIssues from its i-th key on: one request, awaited, per key
TagFrom(versionId, issueKeys, i) ==
    IF i <= Len(issueKeys)
    THEN /\ Send(TagRequest(versionId, issueKeys[i]))
         /\ tagged' = i
         /\ pc' = "tag"
    ELSE /\ pc' = "done"
         /\ UNCHANGED << requests, tagged >>

\* run() after upsertProjectVersion has returned version v
AfterUpsert(v) ==
    /\ returned' = Some(v)
    /\ IF HasTickets(input)
       THEN /\ keys' = SplitTickets(input.tickets)
            /\ TagFrom(v.id, keys', 1)
       ELSE /\ pc' = "done"
            /\ UNCHANGED << keys, requests, tagged >>

(***************************************************************************)
(* The other requests return.                                              *)
(***************************************************************************)
\* getProject returns: prepare the payload and create
ProjectReturns ==
    /\ pc = "project"
    /\ IF PrepareThrows(params[1], now)
       THEN /\ Catch(RangeError)
            /\ UNCHANGED << params, requests >>
       ELSE /\ params' = Some(PrepareUpsertParams(params[1], now))
            /\ Send(CreateRequest(PrepareUpsertParams(params[1], now), ProjectId))
            /\ pc' = "create"
            /\ UNCHANGED << thrown, failures >>
    /\ UNCHANGED << input, before, tracker, nextId, found, returned, keys,
                    tagged, dumped, now, ticks >>

\* createVersion returns the new version; the tracker refuses a second
\* version of the same name
CreateReturns ==
    /\ pc = "create"
    /\ \A i \in 1..Len(tracker) : tracker[i].name # params[1].name
    /\ tracker' = Append(tracker, RemoteVersion(nextId, params[1]))
    /\ nextId' = nextId + 1
    /\ AfterUpsert(RemoteVersion(nextId, params[1]))
    /\ UNCHANGED << input, before, params, found, dumped, thrown, failures,
                    now, ticks >>

\* updateVersion returns the updated version
UpdateReturns ==
    /\ pc = "update"
    /\ tracker' = [i \in 1..Len(tracker) |->
                     IF tracker[i].id = found[1].id
                     THEN RemoteVersion(found[1].id, params[1])
                     ELSE tracker[i]]
    /\ AfterUpsert(RemoteVersion(found[1].id, params[1]))
    /\ UNCHANGED << input, before, nextId, params, found, dumped, thrown,
                    failures, now, ticks >>

\* a tagging request returns: the next key, if any
TagReturns ==
    /\ pc = "tag"
    /\ TagFrom(returned[1].id, keys, tagged + 1)
    /\ UNCHANGED << input, before, tracker, nextId, params, found, returned,
                    keys, dumped, thrown, failures, now, ticks >>

\* deleteAndReplaceVersion returns
DeleteReturns ==
    /\ pc = "delete"
    /\ tracker' = SelectSeq(tracker, LAMBDA v : v.id # found[1].id)
    /\ pc' = "done"
    /\ UNCHANGED << input, before, nextId, params, found, returned, keys,
                    tagged, requests, dumped, thrown, failures, now, ticks >>

\* the awaited request rejects
RequestFails ==
    /\ pc \in Awaiting
    /\ \E err \in Rejections : Catch(err)
    /\ UNCHANGED << input, before, tracker, nextId, params, found, returned,
                    keys, tagged, requests, dumped, now, ticks >>

\* time passes while a request is awaited
Tick ==
    /\ pc \in Awaiting
    /\ ticks < MaxTicks
    /\ now' = now + 1
    /\ ticks' = ticks + 1
    /\ UNCHANGED << input, before, tracker, nextId, pc, params, found,
                    returned, keys, tagged, requests, dumped, thrown, failures >>

Next ==
    \/ RunInvalid
    \/ RunDry
    \/ RunUpsert
    \/ RunDelete
    \/ UpsertFound
    \/ UpsertNotFound
    \/ DeleteNotFound
    \/ DeleteFound
    \/ ProjectReturns
    \/ CreateReturns
    \/ UpdateReturns
    \/ TagReturns
    \/ DeleteReturns
    \/ RequestFails
    \/ Tick

Spec == Init /\ [][Next]_vars

(***************************************************************************)
(* What the properties below read from the log.                            *)
(***************************************************************************)
Of(kind) == SelectSeq(requests, LAMBDA r : r.kind = kind)

Writes == SelectSeq(requests, LAMBDA r : r.kind \in {"createVersion", "updateVersion"})

\* the place of the first request of a kind in the log
IndexOf(kind) == CHOOSE i \in 1..Len(requests) :
                    /\ requests[i].kind = kind
                    /\ \A j \in 1..(i - 1) : requests[j].kind # kind

\* the versions of the project, before the run, that bear the requested name
Bearers == SelectSeq(before, LAMBDA v : v.name = input.release_name)

\* the same, among those the listing's first page shows
BearersOnPage ==
    SelectSeq(FirstPage(before, input.release_name),
              LAMBDA v : v.name = input.release_name)

\* the run called the reconciler or the deleter, which sent its lookup
Called(operation) ==
    /\ input.operation = operation
    /\ requests # <<>>

\* the awaited request was rejected
Rejected == thrown # Undefined /\ thrown[1] \in Rejections

DateMarchFirst == <<"2", "0", "2", "4", "-", "0", "3", "-", "0", "1">>

KeyA1 == <<"A", "-", "1">>

KeyA2 == <<"A", "-", "2">>

\* the issue keys each ticket list of the model names
ExpectedKeys ==
    IF input.tickets = TicketsTwo THEN <<KeyA1, KeyA2>>
    ELSE IF input.tickets = TicketsOne THEN <<KeyA1>>
    ELSE <<>>

(***************************************************************************)
(* C1: with dry_run = true a run sends no request to the tracker, whatever *)
(* the operation and the other fields are.                                 *)
(***************************************************************************)
C1_DryRunSendsNothing == input.dry_run => requests = <<>>

C1_Witness ==
    /\ pc = "done"
    /\ input.dry_run
    /\ dumped
    /\ input.operation = "create_or_update"
    /\ input.tickets = TicketsTwo
    /\ Len(Bearers) = 1

(***************************************************************************)
(* C2, as stated: a release date that is not empty and is not a date makes *)
(* the run fail before any request, with one failure signal.               *)
(***************************************************************************)
C2_AsStated ==
    (/\ input.release_release_date # <<>>
     /\ ~ParseDate(input.release_release_date).valid)
    => /\ requests = <<>>
       /\ pc = "done" => Len(failures) = 1

(***************************************************************************)
(* C2, amended: a release date that is not blank (not empty once trimmed)  *)
(* and is not a date makes validation fail: no request is sent, and the    *)
(* run ends with one failure signal, which is the schema's message when    *)
(* the operation is a valid one.                                           *)
(***************************************************************************)
C2_NonBlankBadDateFailsValidation ==
    (/\ Trim(input.release_release_date) # <<>>
     /\ ~ParseDate(input.release_release_date).valid)
    => /\ requests = <<>>
       /\ pc = "done" =>
            /\ Len(failures) = 1
            /\ failures[1] # RangeError.message
            /\ input.operation \in {"create_or_update", "delete"}
                 => failures[1] = <<"Release date must be a valid date.">>

C2_Witness ==
    /\ pc = "done"
    /\ input.release_release_date = DateWords
    /\ input.operation = "create_or_update"
    /\ ~input.dry_run
    /\ failures = << <<"Release date must be a valid date.">> >>

(***************************************************************************)
(* C3: when the deleter's lookup returns no version of exactly the         *)
(* requested name, no delete request is sent and the run fails with the    *)
(* not-found error that carries the name.                                  *)
(***************************************************************************)
C3_DeleteOfAbsentNameFails ==
    (Called("delete") /\ BearersOnPage = <<>>)
    => /\ Of("deleteVersion") = <<>>
       /\ (pc = "done" /\ ~Rejected)
            => /\ thrown # Undefined
               /\ thrown[1].isError
               /\ failures = << <<"Version ">> \o input.release_name \o <<" not found">> >>

C3_Witness ==
    /\ pc = "done"
    /\ Called("delete")
    /\ BearersOnPage = <<>>
    /\ FirstPage(before, input.release_name) # <<>>
    /\ failures = << <<"Version ", "v", "1", " not found">> >>

(***************************************************************************)
(* C4, as stated: when a version of exactly the requested name exists in   *)
(* the project, upsert sends no create request, addresses its update to    *)
(* that version and returns that version's identifier.                     *)
(***************************************************************************)
C4_AsStated ==
    (Called("create_or_update") /\ Bearers # <<>>)
    => /\ Of("createVersion") = <<>>
       /\ \A i \in 1..Len(Of("updateVersion")) :
            Of("updateVersion")[i].id = Bearers[1].id
       /\ returned # Undefined => returned[1].id = Bearers[1].id

(***************************************************************************)
(* C4, amended: when the first page of the listing shows a version of      *)
(* exactly the requested name, upsert sends no create request and no       *)
(* project lookup, addresses its one update to that version and returns    *)
(* that version's identifier.                                              *)
(***************************************************************************)
C4_UpsertOfListedNameUpdates ==
    (Called("create_or_update") /\ BearersOnPage # <<>>)
    => /\ Of("createVersion") = <<>>
       /\ Of("getProject") = <<>>
       /\ \A i \in 1..Len(Of("updateVersion")) :
            Of("updateVersion")[i].id = BearersOnPage[1].id
       /\ returned # Undefined
            => /\ returned[1].id = BearersOnPage[1].id
               /\ Len(Of("updateVersion")) = 1

C4_Witness ==
    /\ pc = "done"
    /\ Called("create_or_update")
    /\ Len(before) = 2
    /\ BearersOnPage # <<>>
    /\ BearersOnPage[1].id = 2
    /\ returned # Undefined
    /\ returned[1].id = 2
    /\ thrown = Undefined

(***************************************************************************)
(* C5: when no version of the requested name exists in the project, an     *)
(* upsert that returns has sent exactly one create request and no update,  *)
(* has asked for the project exactly once, before the create, and returns  *)
(* the created version with the identifier the tracker gave it.            *)
(***************************************************************************)
C5_UpsertOfNewNameCreates ==
    (Called("create_or_update") /\ Bearers = <<>>)
    => /\ Of("updateVersion") = <<>>
       /\ Len(Of("createVersion")) <= 1
       /\ Len(Of("getProject")) <= 1
       /\ Of("createVersion") # <<>>
            => /\ Of("getProject") # <<>>
               /\ IndexOf("getProject") < IndexOf("createVersion")
               /\ Of("createVersion")[1].projectId = ProjectId
       /\ returned # Undefined
            => /\ Len(Of("createVersion")) = 1
               /\ returned[1].id = Len(before) + 1
               /\ returned[1].name = input.release_name
               /\ \E i \in 1..Len(tracker) : tracker[i] = returned[1]

C5_Witness ==
    /\ pc = "done"
    /\ Called("create_or_update")
    /\ Bearers = <<>>
    /\ before # <<>>
    /\ returned # Undefined
    /\ thrown = Undefined
    /\ Len(Of("createVersion")) = 1

(***************************************************************************)
(* C6: in every create or update payload the release date is present if    *)
(* and only if released is true; with released false the payload has no    *)
(* release date whatever date the input supplied.                          *)
(***************************************************************************)
C6_DateIffReleased ==
    \A i \in 1..Len(Writes) :
        /\ Writes[i].payload.released = input.release_released
        /\ Writes[i].payload.releaseDate # Undefined <=> input.release_released
        /\ Writes[i].payload.releaseDate # Undefined
             => Writes[i].payload.releaseDate[1] # <<>>

C6_Witness ==
    /\ Len(Writes) = 1
    /\ ~input.release_released
    /\ input.release_release_date = DateLeapDay
    /\ Writes[1].payload.releaseDate = Undefined

(***************************************************************************)
(* C7: with released true and no release date supplied, the payload of a   *)
(* create or an update carries the UTC calendar day, as YYYY-MM-DD, of the *)
(* moment the request is sent: 2024-02-29 before midnight UTC, 2024-03-01  *)
(* from midnight on.                                                       *)
(***************************************************************************)
C7_StampsCurrentUtcDay ==
    (input.release_released /\ input.release_release_date = <<>>)
    => \A i \in 1..Len(Writes) :
         Writes[i].payload.releaseDate =
            Some(IF Writes[i].at < ParseDate(DateMarchFirst).t
                 THEN DateLeapDay
                 ELSE DateMarchFirst)

C7_Witness ==
    /\ input.release_released
    /\ input.release_release_date = <<>>
    /\ Len(Of("updateVersion")) = 1
    /\ Of("updateVersion")[1].payload.releaseDate = Some(DateMarchFirst)

C7_WitnessCreate ==
    /\ input.release_released
    /\ input.release_release_date = <<>>
    /\ Len(Of("createVersion")) = 1
    /\ Of("createVersion")[1].payload.releaseDate = Some(DateMarchFirst)

(***************************************************************************)
(* C8: after an upsert has returned, the tagging requests sent so far are  *)
(* the first ones of the list of trimmed keys, in the list's order, each   *)
(* with the returned version's identifier, at most one of them awaited at  *)
(* a time; a run that ends without an error has sent one per key, and a    *)
(* run that a tagging request failed has sent none after it.  For          *)
(* "A-1, A-2" these are the requests for A-1 and A-2.                      *)
(***************************************************************************)
C8_TagsEachKeyInOrder ==
    LET tags == Of("editIssue")
    IN  /\ Len(tags) <= Len(ExpectedKeys)
        /\ tags # <<>> => /\ returned # Undefined
                          /\ input.operation = "create_or_update"
        /\ \A i \in 1..Len(tags) :
             /\ tags[i].issue = ExpectedKeys[i]
             /\ tags[i].versionId = returned[1].id
        /\ tags # <<>> => requests[Len(requests)].kind = "editIssue"
        /\ (pc = "tag") => (tags # <<>> /\ thrown = Undefined)
        /\ (pc = "done" /\ returned # Undefined /\ thrown = Undefined)
             => Len(tags) = Len(ExpectedKeys)
        /\ (pc = "done" /\ returned # Undefined /\ thrown # Undefined)
             => (tags # <<>> /\ Len(tags) = tagged)

C8_Witness ==
    /\ pc = "done"
    /\ input.tickets = TicketsTwo
    /\ thrown = Undefined
    /\ Len(Of("editIssue")) = 2
    /\ Of("editIssue")[1].issue = KeyA1
    /\ Of("editIssue")[2].issue = KeyA2

C8_WitnessAbort ==
    /\ pc = "done"
    /\ input.tickets = TicketsTwo
    /\ thrown # Undefined
    /\ Len(Of("editIssue")) = 1

(***************************************************************************)
(* C9: whatever a downstream component throws is turned into exactly one   *)
(* failure signal that carries its message.                                *)
(***************************************************************************)
C9_AsStated ==
    thrown # Undefined
    => /\ Len(failures) = 1
       /\ failures[1] = thrown[1].message

(***************************************************************************)
(* C10: a release date that is not empty but blank passes validation, and  *)
(* upsert treats it as absent: it raises no error on it and goes on to the *)
(* version lookup with no release date.                                    *)
(***************************************************************************)
C10_AsStated ==
    (/\ input.operation = "create_or_update"
     /\ ~input.dry_run
     /\ input.release_release_date = DateBlank
     /\ pc # "start")
    => /\ thrown # Some(RangeError)
       /\ requests # <<>>
       /\ requests[1].kind = "listVersions"
       /\ params # Undefined
       /\ pc = "lookup" => params[1].releaseDate = Undefined

====
